---- MODULE Spec2Model ----
(***************************************************************************)
(* Bank Customer Churn Dashboard (src/app.py).                             *)
(*                                                                         *)
(* The script is re-executed top to bottom for every user interaction.     *)
(* One execution (a "render") creates the title, two sidebar selectboxes,  *)
(* loads the table of the selected country through a process-wide cache,   *)
(* checks the Exited column   and then runs a fixed sequence of blocks     *)
(* (preview, metrics, nine plots, insights panel, links, FAQ).             *)
(*                                                                         *)
(* A table is [cols, rows]; a row is a function over AllColumns, a column  *)
(* that is not in cols holds Absent(c) and is never read: reading it is    *)
(* the KeyError of pandas and is modelled explicitly.                      *)
(* A float is the exact fraction <<p, q>>; q = 0 is NaN (0/0, the mean of  *)
(* no value).                                                              *)
(* A page element is [sec, kind, text, cats, nums]: the section of the     *)
(* script that emitted it, the streamlit call, its strings, the string     *)
(* columns and the numeric columns handed to it.                           *)
(***************************************************************************)
EXTENDS Integers, Sequences, FiniteSets, TLC

VARIABLES
    pc,          \* the block of the script that runs next ("end": the run is over)
    exc,         \* the exception that ended the run, "none" while it runs
    country,     \* app.py:13 / app.py:31
    df,          \* app.py:32
    churn_rate,  \* app.py:51
    out,         \* the elements this render has put on the page, in order
    cache,       \* st.cache_data store of load_country_data: country -> <<>> or <<table>>
    reads,       \* country -> number of pd.read_csv calls made in this process
    first,       \* country -> <<>> or <<the table the first call returned>>
    calls,       \* country -> number of calls of load_country_data in this process
    runs         \* number of re-executions of the script so far

vars == <<pc, exc, country, df, churn_rate, out, cache, reads, first, calls, runs>>

-----------------------------------------------------------------------------
(* Bounds of the model *)

\* Rows of a file with a column that the script only hands to a chart
MaxWideRows == 1
\* Rows of a file that holds none but the columns the script computes with
MaxRows == 2
\* Rows of a file that holds no other column than Exited and EstimatedSalary
MaxLongRows == 4
\* Re-executions of the script in one process
MaxReruns == 3

-----------------------------------------------------------------------------
(* Data *)

Countries == {"France", "Germany", "Spain"}

CountryOptions == <<"France", "Germany", "Spain">>

file_map == [France |-> "france_df.csv", Germany |-> "germany_df.csv", Spain |-> "spain_df.csv"]

cols_to_drop == {"Unnamed: 0", "RowNumber"}

OptionalColumns == {"Gender", "Age", "CreditScore", "AgeGroup", "EstimatedSalary",
                    "Card Type", "Tenure", "CreditScoreCategory"}

AllColumns == {"Exited"} \cup OptionalColumns \cup cols_to_drop

\* The order in which the preview lists the columns (the order of the file's
\* header is not modelled).
ColumnOrder == <<"Exited", "Gender", "Age", "CreditScore", "AgeGroup", "EstimatedSalary",
                 "Card Type", "Tenure", "CreditScoreCategory">>

StringColumns == {"Gender", "AgeGroup", "Card Type", "CreditScoreCategory"}

\* Sorted as Python sorts strings.
AgeGroups == <<"Senior", "Young">>
CardTypes == <<"GOLD", "SILVER">>

Range(s) == {s[i] : i \in DOMAIN s}

\* The values a column of a file may hold. The columns the script computes with
\* have two values each; a column that is only handed to a chart has one.
Dom(c) ==
    CASE c = "Exited" -> {0, 1}
      [] c = "Gender" -> {"Female"}
      [] c = "Age" -> {40}
      [] c = "CreditScore" -> {600}
      [] c = "AgeGroup" -> Range(AgeGroups)
      [] c = "EstimatedSalary" -> {1000, 2500}
      [] c = "Card Type" -> Range(CardTypes)
      [] c = "Tenure" -> {3}
      [] c = "CreditScoreCategory" -> {"Good"}
      [] c = "Unnamed: 0" -> {0}
      [] c = "RowNumber" -> {1}

Absent(c) == IF c \in StringColumns THEN "" ELSE 0 - 1

ValuesOf(c, cols) == IF c \in cols THEN Dom(c) ELSE {Absent(c)}

RowSet(cols) ==
    { (r @@ ("Card Type" :> ct)) @@ ("Unnamed: 0" :> u) :
        r \in [ Exited : ValuesOf("Exited", cols),
                Gender : ValuesOf("Gender", cols),
                Age : ValuesOf("Age", cols),
                CreditScore : ValuesOf("CreditScore", cols),
                AgeGroup : ValuesOf("AgeGroup", cols),
                EstimatedSalary : ValuesOf("EstimatedSalary", cols),
                Tenure : ValuesOf("Tenure", cols),
                CreditScoreCategory : ValuesOf("CreditScoreCategory", cols),
                RowNumber : ValuesOf("RowNumber", cols) ],
        ct \in ValuesOf("Card Type", cols),
        u \in ValuesOf("Unnamed: 0", cols) }

\* The columns the script computes with (sum, mean, value_counts, groupby)
ComputedColumns == {"Exited", "AgeGroup", "Card Type", "EstimatedSalary"}

RowBound(cols) ==
    IF cols \subseteq {"Exited", "EstimatedSalary"} \cup cols_to_drop THEN MaxLongRows
    ELSE IF cols \subseteq ComputedColumns \cup cols_to_drop THEN MaxRows
    ELSE MaxWideRows

TablesOver(cols) ==
    { [cols |-> cols, rows |-> rs] :
        rs \in UNION { [1..n -> RowSet(cols)] : n \in 0..RowBound(cols) } }

\* The header a country's file may have when it is read: any set of columns
\* (under each header, any rows: TablesOver).
CsvHeaders == SUBSET AllColumns

EmptyFrame == [cols |-> {}, rows |-> <<>>]

-----------------------------------------------------------------------------
(* pandas *)

\* df.drop(columns=names)
Drop(t, names) ==
    [cols |-> t.cols \ names,
     rows |-> [i \in DOMAIN t.rows |->
                 [c \in AllColumns |-> IF c \in names THEN Absent(c) ELSE t.rows[i][c]]]]

\* df[c] as the sequence of its values
Col(t, c) == [i \in DOMAIN t.rows |-> t.rows[i][c]]

\* df[df[c] == v]
Where(t, c, v) == [cols |-> t.cols, rows |-> SelectSeq(t.rows, LAMBDA r : r[c] = v)]

\* df.head(n)
DfHead(t, n) ==
    [cols |-> t.cols,
     rows |-> SubSeq(t.rows, 1, IF Len(t.rows) < n THEN Len(t.rows) ELSE n)]

RECURSIVE SumSeq(_)
SumSeq(s) == IF s = <<>> THEN 0 ELSE s[1] + SumSeq(Tail(s))

\* Series.mean(): the sum over the count, NaN for no value
Mean(s) == <<SumSeq(s), Len(s)>>

Times(x, k) == <<x[1] * k, x[2]>>

IsNaN(x) == x[2] = 0

\* The distinct values of s in the order of their first appearance
RECURSIVE Unique(_)
Unique(s) ==
    IF s = <<>> THEN <<>>
    ELSE LET u == Unique(SubSeq(s, 1, Len(s) - 1))
             v == s[Len(s)]
         IN  IF v \in Range(u) THEN u ELSE Append(u, v)

Count(s, v) == Len(SelectSeq(s, LAMBDA x : x = v))

\* Series.sort_values(ascending=False) of the counts: a stable insertion sort,
\* an entry goes behind the entries that are not less frequent.
RECURSIVE InsertByCount(_, _)
InsertByCount(s, e) ==
    IF s = <<>> THEN <<e>>
    ELSE IF e.value > s[1].value THEN <<e>> \o s
    ELSE <<s[1]>> \o InsertByCount(Tail(s), e)

RECURSIVE SortByCount(_)
SortByCount(s) ==
    IF s = <<>> THEN <<>>
    ELSE InsertByCount(SortByCount(SubSeq(s, 1, Len(s) - 1)), s[Len(s)])

\* Series.value_counts(): one entry [index, value] per distinct value, the most
\* frequent first, equally frequent ones in the order of their first appearance.
value_counts(s) ==
    LET u == Unique(s)
        counted == [i \in DOMAIN u |-> [index |-> u[i], value |-> Count(s, u[i])]]
    IN  SortByCount(counted)

\* Series.rename({0: 'Retained', 1: 'Churned'}) on a value_counts() result: a
\* label that the mapping does not name is kept (shown as text)
rename(vc) ==
    [i \in DOMAIN vc |->
        [index |-> IF vc[i].index = 0 THEN "Retained"
                   ELSE IF vc[i].index = 1 THEN "Churned"
                   ELSE ToString(vc[i].index),
         value |-> vc[i].value]]

\* Series.idxmax(): the index of the first maximal entry (ValueError on an
\* empty series is raised by the caller's block)
idxmax(vc) ==
    LET best == CHOOSE i \in DOMAIN vc :
                    /\ \A j \in DOMAIN vc : vc[j].value <= vc[i].value
                    /\ \A j \in 1..(i - 1) : vc[j].value < vc[i].value
    IN  vc[best].index

Rank(s, v) == CHOOSE i \in DOMAIN s : s[i] = v

\* Mutant: the rows are grouped by AgeGroup alone
RECURSIVE Accumulate_ByAgeGroup(_)
Accumulate_ByAgeGroup(rows) ==
    IF rows = <<>> THEN <<>>
    ELSE LET acc == Accumulate_ByAgeGroup(SubSeq(rows, 1, Len(rows) - 1))
             r == rows[Len(rows)]
             hit == {i \in DOMAIN acc : acc[i].AgeGroup = r["AgeGroup"]}
         IN  IF hit = {}
             THEN Append(acc, [AgeGroup |-> r["AgeGroup"], CardType |-> r["Card Type"],
                               sum |-> r["EstimatedSalary"], count |-> 1])
             ELSE [i \in DOMAIN acc |->
                     IF i \in hit
                     THEN [acc[i] EXCEPT !.sum = @ + r["EstimatedSalary"], !.count = @ + 1]
                     ELSE acc[i]]

\* One pass over the rows: the groups in the order they are first seen, each
\* with the running sum and count of EstimatedSalary.
RECURSIVE Accumulate(_)
Accumulate(rows) ==
    IF rows = <<>> THEN <<>>
    ELSE LET acc == Accumulate(SubSeq(rows, 1, Len(rows) - 1))
             r == rows[Len(rows)]
             hit == {i \in DOMAIN acc : /\ acc[i].AgeGroup = r["AgeGroup"]
                                        /\ acc[i].CardType = r["Card Type"]}
         IN  IF hit = {}
             THEN Append(acc, [AgeGroup |-> r["AgeGroup"], CardType |-> r["Card Type"],
                               sum |-> r["EstimatedSalary"], count |-> 1])
             ELSE [i \in DOMAIN acc |->
                     IF i \in hit
                     THEN [acc[i] EXCEPT !.sum = @ + r["EstimatedSalary"], !.count = @ + 1]
                     ELSE acc[i]]

KeyBefore(a, b) ==
    \/ Rank(AgeGroups, a.AgeGroup) < Rank(AgeGroups, b.AgeGroup)
    \/ /\ a.AgeGroup = b.AgeGroup
       /\ Rank(CardTypes, a.CardType) < Rank(CardTypes, b.CardType)

RECURSIVE InsertByKey(_, _)
InsertByKey(s, e) ==
    IF s = <<>> THEN <<e>>
    ELSE IF KeyBefore(e, s[1]) THEN <<e>> \o s
    ELSE <<s[1]>> \o InsertByKey(Tail(s), e)

RECURSIVE SortByKey(_)
SortByKey(s) ==
    IF s = <<>> THEN <<>>
    ELSE InsertByKey(SortByKey(SubSeq(s, 1, Len(s) - 1)), s[Len(s)])

\* df.groupby(['AgeGroup', 'Card Type'])['EstimatedSalary'].mean().reset_index():
\* one row per group, sorted by the group key, the mean as a fraction
GroupedMean(t) ==
    LET acc == SortByKey(Accumulate(t.rows))
    IN  [i \in DOMAIN acc |-> [AgeGroup |-> acc[i].AgeGroup, CardType |-> acc[i].CardType,
                               EstimatedSalary |-> <<acc[i].sum, acc[i].count>>]]

-----------------------------------------------------------------------------
(* Python string formatting *)

\* a / b rounded to the nearest integer, a tie to the even one
RoundHalfEven(a, b) ==
    LET f == a \div b
        r == a % b
    IN  IF 2 * r > b THEN f + 1
        ELSE IF 2 * r < b THEN f
        ELSE IF f % 2 = 0 THEN f ELSE f + 1

TwoDigits(n) == IF n < 10 THEN "0" \o ToString(n) ELSE ToString(n)

ThreeDigits(n) == IF n < 100 THEN "0" \o TwoDigits(n) ELSE ToString(n)

\* Mutant: the digits behind the second decimal are cut off, not rounded
Format2f_Truncated(x) ==
    IF IsNaN(x) THEN "nan"
    ELSE LET h == (100 * x[1]) \div x[2]
         IN  ToString(h \div 100) \o "." \o TwoDigits(h % 100)

\* f"{x:.2f}"
Format2f(x) ==
    IF IsNaN(x) THEN "nan"
    ELSE LET h == RoundHalfEven(100 * x[1], x[2])
         IN  ToString(h \div 100) \o "." \o TwoDigits(h % 100)

RECURSIVE Grouped(_)
Grouped(n) ==
    IF n < 1000 THEN ToString(n)
    ELSE Grouped(n \div 1000) \o "," \o ThreeDigits(n % 1000)

\* f"{x:,.0f}"
Format0f(x) == IF IsNaN(x) THEN "nan" ELSE Grouped(RoundHalfEven(x[1], x[2]))

-----------------------------------------------------------------------------
(* Page elements *)

El(sec, kind, text, cats, nums) ==
    [sec |-> sec, kind |-> kind, text |-> text, cats |-> cats, nums |-> nums]

Markdown(sec, text) == El(sec, "markdown", <<text>>, <<>>, <<>>)

\* A plotly figure over the columns `used` of the table t
Chart(sec, title, t, used) ==
    LET strs == SelectSeq(used, LAMBDA c : c \in StringColumns)
        ints == SelectSeq(used, LAMBDA c : c \notin StringColumns)
    IN  El(sec, "plotly_chart", <<title>> \o used,
           [i \in DOMAIN strs |-> Col(t, strs[i])],
           [i \in DOMAIN ints |-> Col(t, ints[i])])

\* st.dataframe(t): the columns of t and their values
Frame(sec, t) ==
    [Chart(sec, "", t, SelectSeq(ColumnOrder, LAMBDA c : c \in t.cols)) EXCEPT !.kind = "dataframe"]

NoRate == <<0, 0>>

\* What a block does: the elements it emits, the exception it raises ("none"
\* if it returns) and the value of churn_rate after it.
Did(emit, e, rate) == [emit |-> emit, exc |-> e, churn_rate |-> rate]

-----------------------------------------------------------------------------
(* The blocks of the script behind the load, app.py:35-220 *)

\* Mutant: the error is shown but st.stop() is missing
CheckExited_NoStop(t) ==
    IF "Exited" \notin t.cols
    THEN Did(<<El("check", "error",
                  <<"The expected column Exited is not found in the dataset.">>,
                  <<>>, <<>>)>>,
             "none", NoRate)
    ELSE Did(<<>>, "none", NoRate)

CheckExited(t) ==
    IF "Exited" \notin t.cols
    THEN Did(<<El("check", "error",
                  <<"The expected column Exited is not found in the dataset.">>,
                  <<>>, <<>>)>>,
             "StopException", NoRate)
    ELSE Did(<<>>, "none", NoRate)

Overview(c, t) ==
    Did(<<Markdown("preview", "### Dataset Overview - " \o c),
          Frame("preview", DfHead(t, 5))>>,
        "none", NoRate)

Metrics(t) ==
    LET rate == Times(Mean(Col(t, "Exited")), 100)
    IN  Did(<<El("metrics", "metric", <<"Total Customers", ToString(Len(t.rows))>>, <<>>, <<>>),
              El("metrics", "metric",
                 <<"Churned Customers", ToString(SumSeq(Col(t, "Exited")))>>, <<>>, <<>>),
              El("metrics", "metric", <<"Churn Rate (%)", Format2f(rate)>>, <<>>, <<>>)>>,
            "none", rate)

Plot1(t, rate) ==
    Did(<<Chart("fig1", "Churn Distribution", t, <<"Exited", "Exited">>)>>, "none", rate)

Plot2(t, rate) ==
    IF "Gender" \in t.cols
    THEN Did(<<Chart("fig2", "Churn by Gender", t, <<"Gender", "Exited">>)>>, "none", rate)
    ELSE Did(<<>>, "none", rate)

Plot3(t, rate) ==
    IF "Age" \in t.cols
    THEN Did(<<Chart("fig3", "Age Distribution by Churn Status", t, <<"Exited", "Age", "Exited">>)>>,
             "none", rate)
    ELSE Did(<<>>, "none", rate)

Plot4(t, rate) ==
    IF "CreditScore" \in t.cols
    THEN Did(<<Chart("fig4", "Credit Score Distribution by Churn", t, <<"CreditScore", "Exited">>)>>,
             "none", rate)
    ELSE Did(<<>>, "none", rate)

Plot5(t, rate) ==
    IF "AgeGroup" \in t.cols /\ "EstimatedSalary" \in t.cols
    THEN Did(<<Markdown("fig5", "### Estimated Salary by Age Group (Box Plot)"),
               Chart("fig5", "Estimated Salary Distribution Across Age Groups", t,
                     <<"AgeGroup", "EstimatedSalary", "AgeGroup">>)>>,
             "none", rate)
    ELSE Did(<<>>, "none", rate)

\* px.bar(grouped_df, x='AgeGroup', y='EstimatedSalary', color='Card Type'): the
\* figure holds the rows of grouped_df, the mean as numerator and denominator
fig6(grouped_df) ==
    El("fig6", "plotly_chart",
       <<"Average Estimated Salary by Age Group and Card Type",
         "AgeGroup", "EstimatedSalary", "Card Type">>,
       <<[i \in DOMAIN grouped_df |-> grouped_df[i].AgeGroup],
         [i \in DOMAIN grouped_df |-> grouped_df[i].CardType]>>,
       <<[i \in DOMAIN grouped_df |-> grouped_df[i].EstimatedSalary[1]],
         [i \in DOMAIN grouped_df |-> grouped_df[i].EstimatedSalary[2]]>>)

Plot6(t, rate) ==
    IF "AgeGroup" \in t.cols /\ "Card Type" \in t.cols
    THEN LET head == Markdown("fig6", "### Avg Estimated Salary by Age Group & Card Type")
         IN  IF "EstimatedSalary" \notin t.cols
             THEN Did(<<head>>, "KeyError", rate)
             ELSE Did(<<head, fig6(GroupedMean(t))>>, "none", rate)
    ELSE Did(<<>>, "none", rate)

Plot7(t, rate) ==
    LET churn_counts == rename(value_counts(Col(t, "Exited")))
    IN  Did(<<Markdown("fig7", "### Churn Breakdown"),
              El("fig7", "plotly_chart", <<"Churn vs Retention">>,
                 <<[i \in DOMAIN churn_counts |-> churn_counts[i].index]>>,
                 <<[i \in DOMAIN churn_counts |-> churn_counts[i].value]>>)>>,
            "none", rate)

Plot8(t, rate) ==
    IF "Tenure" \in t.cols
    THEN Did(<<Markdown("fig8", "### Churn by Tenure"),
               Chart("fig8", "Churn Distribution by Customer Tenure", t, <<"Tenure", "Exited">>)>>,
             "none", rate)
    ELSE Did(<<>>, "none", rate)

\* Mutant: the condition of the block above, copied
Plot9_IfTenure(t, rate) ==
    IF "Tenure" \in t.cols
    THEN Did(<<Markdown("fig9", "### Churn by Credit Score Category"),
               Chart("fig9", "Churn Distribution Across Credit Score Categories", t,
                     <<"CreditScoreCategory", "Exited">>)>>,
             "none", rate)
    ELSE Did(<<>>, "none", rate)

Plot9(t, rate) ==
    IF "CreditScoreCategory" \in t.cols
    THEN Did(<<Markdown("fig9", "### Churn by Credit Score Category"),
               Chart("fig9", "Churn Distribution Across Credit Score Categories", t,
                     <<"CreditScoreCategory", "Exited">>)>>,
             "none", rate)
    ELSE Did(<<>>, "none", rate)

country_heading_colors == [France |-> "#0055A4", Germany |-> "#D00000", Spain |-> "#FFC400"]

heading_color(c) ==
    IF c \in DOMAIN country_heading_colors THEN country_heading_colors[c] ELSE "#FFD700"

\* top_card_churned / common_agegroup_churned, app.py:134-135
MostCommon(churned, c) ==
    IF c \in churned.cols THEN idxmax(value_counts(Col(churned, c))) ELSE "N/A"

insight_template(c, rate, avg_salary_churned, top_card_churned, common_agegroup_churned, avg_salary_retained) ==
    El("insights", "markdown",
       <<"insight-box", heading_color(c), c \o " - Churn Analysis Summary",
         Format2f(rate) \o "%",
         "EUR " \o Format0f(avg_salary_churned),
         top_card_churned,
         common_agegroup_churned,
         "EUR " \o Format0f(avg_salary_retained)>>,
       <<>>, <<>>)

Insights(c, t, rate) ==
    LET head == Markdown("insights", "##  Key Findings & Insights")
        churned == Where(t, "Exited", 1)
        retained == Where(t, "Exited", 0)
    IN  IF "EstimatedSalary" \notin t.cols
        THEN Did(<<head>>, "KeyError", rate)
        ELSE IF \/ "Card Type" \in churned.cols /\ churned.rows = <<>>
                \/ "AgeGroup" \in churned.cols /\ churned.rows = <<>>
        THEN Did(<<head>>, "ValueError", rate)
        ELSE Did(<<head,
                   insight_template(c, rate,
                                    Mean(Col(churned, "EstimatedSalary")),
                                    MostCommon(churned, "Card Type"),
                                    MostCommon(churned, "AgeGroup"),
                                    Mean(Col(retained, "EstimatedSalary"))),
                   Markdown("insights", "---")>>,
                 "none", rate)

linkedin_url == "http://www.linkedin.com/in/neha-sharma-09835724b"
github_url == "https://github.com/NehaSharma-26"

Links(rate) ==
    Did(<<Markdown("links", "## Connect with Me"),
          El("links", "markdown", <<"LinkedIn Profile", linkedin_url>>, <<>>, <<>>),
          El("links", "markdown", <<"GitHub Projects", github_url>>, <<>>, <<>>)>>,
        "none", rate)

Expander(q, a) == El("faq", "expander", <<q, a>>, <<>>, <<>>)

FAQ(rate) ==
    Did(<<Markdown("faq", "## Frequently Asked Questions"),
          Expander("What does 'churn' mean in this dashboard?",
                   "Churn refers to customers who have exited the bank"),
          Expander("How is churn rate calculated?",
                   "Churn Rate = (Number of Churned Customers / Total Customers) x 100"),
          Expander("What is the meaning of 'Card Type'?",
                   "This usually refers to the type of bank card issued to the customer"),
          Expander("How was this dashboard built?",
                   "This dashboard was created using Python, Streamlit, and Plotly")>>,
        "none", rate)

\* The blocks in the order of the script
Body == <<"CheckExited", "Overview", "Metrics", "Plot1", "Plot2", "Plot3", "Plot4", "Plot5",
          "Plot6", "Plot7", "Plot8", "Plot9", "Insights", "Links", "FAQ">>

Exec(b, c, t, rate) ==
    CASE b = "CheckExited" -> CheckExited(t)
      [] b = "Overview" -> Overview(c, t)
      [] b = "Metrics" -> Metrics(t)
      [] b = "Plot1" -> Plot1(t, rate)
      [] b = "Plot2" -> Plot2(t, rate)
      [] b = "Plot3" -> Plot3(t, rate)
      [] b = "Plot4" -> Plot4(t, rate)
      [] b = "Plot5" -> Plot5(t, rate)
      [] b = "Plot6" -> Plot6(t, rate)
      [] b = "Plot7" -> Plot7(t, rate)
      [] b = "Plot8" -> Plot8(t, rate)
      [] b = "Plot9" -> Plot9(t, rate)
      [] b = "Insights" -> Insights(c, t, rate)
      [] b = "Links" -> Links(rate)
      [] b = "FAQ" -> FAQ(rate)

Following(b) ==
    LET i == Rank(Body, b)
    IN  IF i < Len(Body) THEN Body[i + 1] ELSE "end"

\* The whole of app.py:35-220 on the table t of country c, block after block
\* from Body[i] on, until a block raises: [out, exc, churn_rate] at the end.
RECURSIVE RunFrom(_, _, _, _)
RunFrom(i, c, t, st) ==
    IF i > Len(Body) \/ st.exc # "none" THEN st
    ELSE LET r == Exec(Body[i], c, t, st.churn_rate)
         IN  RunFrom(i + 1, c, t,
                     [out |-> st.out \o r.emit, exc |-> r.exc, churn_rate |-> r.churn_rate])

Page(c, t) == RunFrom(1, c, t, [out |-> <<>>, exc |-> "none", churn_rate |-> NoRate])

-----------------------------------------------------------------------------
(* The run of the script *)

\* A few headers for the runs that follow one another in one process
SessionHeaders == {{"Exited", "Gender", "RowNumber"}, {"Gender", "Unnamed: 0"}}

Init ==
    /\ pc = "Title"
    /\ exc = "none"
    /\ country = ""
    /\ df = EmptyFrame
    /\ churn_rate = NoRate
    /\ out = <<>>
    /\ cache = [c \in Countries |-> <<>>]
    /\ reads = [c \in Countries |-> 0]
    /\ first = [c \in Countries |-> <<>>]
    /\ calls = [c \in Countries |-> 0]
    /\ runs = 0

selectbox == El("sidebar", "selectbox", <<"Choose a country">> \o CountryOptions, <<>>, <<>>)

\* app.py:5-9
Title ==
    /\ pc = "Title"
    /\ out' = Append(out, El("title", "title", <<"Bank Customer Churn Dashboard">>, <<>>, <<>>))
    /\ pc' = "Sidebar"
    /\ UNCHANGED <<exc, country, df, churn_rate, cache, reads, first, calls, runs>>

\* app.py:11-13
Sidebar ==
    /\ pc = "Sidebar"
    /\ \E choice \in Countries : country' = choice
    /\ out' = out \o <<El("sidebar", "title", <<"Select Country">>, <<>>, <<>>), selectbox>>
    /\ pc' = "Select"
    /\ UNCHANGED <<exc, df, churn_rate, cache, reads, first, calls, runs>>

\* app.py:31: a second selectbox with the label, the options and the (missing)
\* key of the first. The source does not settle what the framework makes of it:
\* it draws the widget again and returns its selection, or it refuses the
\* duplicate with an exception, which ends the run.
Select ==
    /\ pc = "Select"
    /\ \/ /\ \E choice \in Countries : country' = choice
          /\ out' = Append(out, selectbox)
          /\ pc' = "Load"
          /\ UNCHANGED exc
       \/ /\ exc' = "DuplicateWidgetID"
          /\ pc' = "end"
          /\ UNCHANGED <<country, out>>
    /\ UNCHANGED <<df, churn_rate, cache, reads, first, calls, runs>>

\* Mutant: the function without @st.cache_data
load_country_data_Uncached(selected_country, headers) ==
    \E header \in headers : \E csv \in TablesOver(header) :
        LET loaded == Drop(csv, csv.cols \cap cols_to_drop)
        IN  /\ df' = loaded
            /\ cache' = [cache EXCEPT ![selected_country] = <<loaded>>]
            /\ reads' = [reads EXCEPT ![selected_country] = @ + 1]

\* app.py:16-28 under @st.cache_data: the stored table of the country if there
\* is one, else the file is read (any content under one of `headers`), the
\* index columns are dropped and the result is stored.
load_country_data(selected_country, headers) ==
    IF cache[selected_country] # <<>>
    THEN /\ df' = cache[selected_country][1]
         /\ UNCHANGED <<cache, reads>>
    ELSE \E header \in headers : \E csv \in TablesOver(header) :
            LET loaded == Drop(csv, csv.cols \cap cols_to_drop)
            IN  /\ df' = loaded
                /\ cache' = [cache EXCEPT ![selected_country] = <<loaded>>]
                /\ reads' = [reads EXCEPT ![selected_country] = @ + 1]

\* app.py:32
Load(headers) ==
    /\ pc = "Load"
    /\ load_country_data(country, headers)
    /\ first' = IF first[country] = <<>> THEN [first EXCEPT ![country] = <<df'>>] ELSE first
    /\ calls' = [calls EXCEPT ![country] = @ + 1]
    /\ pc' = "CheckExited"
    /\ UNCHANGED <<exc, country, churn_rate, out, runs>>

\* One block of app.py:35-220
Step(b) ==
    /\ pc = b
    /\ LET r == Exec(b, country, df, churn_rate)
       IN  /\ out' = out \o r.emit
           /\ exc' = r.exc
           /\ churn_rate' = r.churn_rate
           /\ pc' = IF r.exc # "none" THEN "end" ELSE Following(b)
    /\ UNCHANGED <<country, df, cache, reads, first, calls, runs>>

\* The user touches a widget: the script runs again from the top, in the same
\* process (the cache stays).
Rerun ==
    /\ pc = "end"
    /\ runs < MaxReruns
    /\ runs' = runs + 1
    /\ pc' = "Title"
    /\ exc' = "none"
    /\ country' = ""
    /\ df' = EmptyFrame
    /\ churn_rate' = NoRate
    /\ out' = <<>>
    /\ UNCHANGED <<cache, reads, first, calls>>

Script ==
    \/ Title
    \/ Sidebar
    \/ Select
    \/ Step("CheckExited")
    \/ Step("Overview")
    \/ Step("Metrics")
    \/ Step("Plot1")
    \/ Step("Plot2")
    \/ Step("Plot3")
    \/ Step("Plot4")
    \/ Step("Plot5")
    \/ Step("Plot6")
    \/ Step("Plot7")
    \/ Step("Plot8")
    \/ Step("Plot9")
    \/ Step("Insights")
    \/ Step("Links")
    \/ Step("FAQ")

\* The first run of a fresh process, over every file content
Next == Script \/ Load(CsvHeaders)

Spec == Init /\ [][Next]_vars

\* The runs of one process, one after the other
SessionNext == Script \/ Load(SessionHeaders) \/ Rerun

SessionSpec == Init /\ [][SessionNext]_vars

-----------------------------------------------------------------------------
(* Vocabulary of the properties *)

\* The run has passed app.py:32: df is the table the loader returned
Loaded == pc \notin {"Title", "Sidebar", "Select", "Load"} /\ exc # "DuplicateWidgetID"

Finished == pc = "end" /\ Loaded

Elements(sec, kind) == {i \in DOMAIN out : out[i].sec = sec /\ out[i].kind = kind}

Has(sec) == \E i \in DOMAIN out : out[i].sec = sec

\* What the blocks behind the load have emitted
BodyOut == SelectSeq(out, LAMBDA e : e.sec \notin {"title", "sidebar"})

Ones(t) == Cardinality({i \in DOMAIN t.rows : t.rows[i]["Exited"] = 1})

Zeros(t) == Cardinality({i \in DOMAIN t.rows : t.rows[i]["Exited"] = 0})

\* The decimal notation of h hundredths
Decimal2(h) ==
    ToString(h \div 100) \o "." \o ToString((h % 100) \div 10) \o ToString(h % 10)

RECURSIVE SalarySum(_, _)
SalarySum(t, S) ==
    IF S = {} THEN 0
    ELSE LET i == CHOOSE i \in S : TRUE
         IN  t.rows[i]["EstimatedSalary"] + SalarySum(t, S \ {i})

\* The columns each optional chart needs
ChartNeeds ==
    [fig2 |-> {"Gender"}, fig3 |-> {"Age"}, fig4 |-> {"CreditScore"},
     fig5 |-> {"AgeGroup", "EstimatedSalary"},
     fig6 |-> {"AgeGroup", "Card Type", "EstimatedSalary"},
     fig8 |-> {"Tenure"}, fig9 |-> {"CreditScoreCategory"}]

\* The insights panel, if this render has shown it
Panels == {i \in DOMAIN out : out[i].sec = "insights" /\ out[i].text[1] = "insight-box"}

ChurnedCount(t, c, v) ==
    Cardinality({i \in DOMAIN t.rows : t.rows[i]["Exited"] = 1 /\ t.rows[i][c] = v})

\* v is a value of column c that no other is more frequent than among the
\* rows with Exited = 1
MostFrequentChurned(t, c, v) ==
    /\ ChurnedCount(t, c, v) >= 1
    /\ \A w \in Dom(c) : ChurnedCount(t, c, w) <= ChurnedCount(t, c, v)

-----------------------------------------------------------------------------
(* C1 *)

\* C1: when the loaded table has no Exited column the run shows the error and
\* stops at the check: the page holds the title, the sidebar and the error, in
\* that order, and nothing of the preview, the metrics, the charts, the insights
\* panel, the links or the FAQ.
C1_MissingExitedStops ==
    (Loaded /\ "Exited" \notin df.cols) =>
        /\ pc \in {"CheckExited", "end"}
        /\ \A i \in DOMAIN out : out[i].sec \in {"title", "sidebar", "check"}
        /\ pc = "end" =>
              /\ exc = "StopException"
              /\ Elements("check", "error") = {Len(out)}
              /\ \A i \in 1..(Len(out) - 1) : out[i].sec \in {"title", "sidebar"}

C1_Witness ==
    /\ pc = "end"
    /\ exc = "StopException"
    /\ "Exited" \notin df.cols
    /\ {"AgeGroup", "Tenure"} \subseteq df.cols
    /\ Len(df.rows) = 1

-----------------------------------------------------------------------------
(* C2 *)

\* C2: with Exited present, whatever optional columns are missing the run
\* raises no exception, and each optional chart is on the finished page if and
\* only if all the columns it needs are in the table.
C2_OptionalColumnsNeverFault ==
    (Loaded /\ "Exited" \in df.cols) =>
        /\ exc = "none"
        /\ pc = "end" =>
              \A f \in DOMAIN ChartNeeds :
                 Elements(f, "plotly_chart") # {} <=> ChartNeeds[f] \subseteq df.cols

-----------------------------------------------------------------------------
(* C3 *)

\* C3: in one process, the file of a country is read at most once, the stored
\* table of a country never changes or disappears once it is there, and every
\* call of load_country_data for a country returns the table its first call
\* returned.
C3_CacheIdempotent ==
    /\ \A c \in Countries :
          /\ calls[c] = 0 => reads[c] = 0 /\ cache[c] = <<>> /\ first[c] = <<>>
          /\ calls[c] > 0 => reads[c] = 1 /\ cache[c] # <<>> /\ cache[c] = first[c]
    /\ Loaded => <<df>> = first[country]

C3_Witness ==
    /\ Loaded
    /\ calls[country] >= 2
    /\ reads[country] = 1
    /\ \E c \in Countries \ {country} : cache[c] # <<>> /\ cache[c] # cache[country]

-----------------------------------------------------------------------------
(* C4 *)

\* C4: with Exited present, the page shows one "Churn Rate (%)" metric; for a
\* table of n > 0 rows of which k have Exited = 1 its text is the two-decimal
\* notation of the hundredth nearest to 100 k / n; the insights panel, when it
\* is shown, shows the same text. (1,000 rows of which 203 churned: "20.30".)
C4_ChurnRate ==
    /\ Format2f(Times(<<203, 1000>>, 100)) = "20.30"
    /\ (Loaded /\ "Exited" \in df.cols /\ pc \notin {"CheckExited", "Overview", "Metrics"}) =>
          LET n == Len(df.rows)
              k == Ones(df)
              shown == {out[i].text[2] : i \in {j \in Elements("metrics", "metric") :
                                                   out[j].text[1] = "Churn Rate (%)"}}
          IN  /\ Cardinality(Elements("metrics", "metric")) = 3
              /\ Cardinality(shown) = 1
              /\ n > 0 =>
                    \E h \in {(10000 * k) \div n, (10000 * k) \div n + 1} :
                       /\ 2 * (10000 * k - h * n) <= n
                       /\ 2 * (h * n - 10000 * k) <= n
                       /\ shown = {Decimal2(h)}
              /\ \A i \in Panels : \A r \in shown : out[i].text[4] = r \o "%"

C4_Witness ==
    /\ Finished
    /\ exc = "none"
    /\ Len(df.rows) = 3
    /\ Ones(df) = 2
    /\ \E i \in Panels : out[i].text[4] = "66.67%"

-----------------------------------------------------------------------------
(* C5 *)

\* C5: with Exited present, every finished run has drawn the pie chart: one
\* slice per flag value that occurs, labelled "Retained" for 0 and "Churned"
\* for 1, its value the number of rows with that flag, the values summing to
\* the number of rows.
C5_PieAlways ==
    (Finished /\ "Exited" \in df.cols) =>
        /\ Cardinality(Elements("fig7", "plotly_chart")) = 1
        /\ \A e \in {out[i] : i \in Elements("fig7", "plotly_chart")} :
              LET names == e.cats[1]
                  values == e.nums[1]
              IN  /\ Len(names) = Len(values)
                  /\ \A i \in DOMAIN names :
                        \/ names[i] = "Retained" /\ values[i] = Zeros(df)
                        \/ names[i] = "Churned" /\ values[i] = Ones(df)
                  /\ \A i, j \in DOMAIN names : names[i] = names[j] => i = j
                  /\ \A i \in DOMAIN values : values[i] > 0
                  /\ SumSeq(values) = Len(df.rows)

-----------------------------------------------------------------------------
(* C6 *)

\* C6: the table behind the grouped-bar chart has one row for each (AgeGroup,
\* Card Type) pair that occurs in the data, none twice and none that does not
\* occur, and the EstimatedSalary of a row is the sum of EstimatedSalary over
\* the data rows of its pair divided by their number; a table with Exited,
\* AgeGroup, Card Type and EstimatedSalary gets this chart.
C6_GroupedMean ==
    /\ (/\ Loaded
        /\ {"Exited", "AgeGroup", "Card Type", "EstimatedSalary"} \subseteq df.cols
        /\ Rank(Body, "Plot6") < (IF pc = "end" THEN Len(Body) + 1 ELSE Rank(Body, pc)))
            => Cardinality(Elements("fig6", "plotly_chart")) = 1
    /\ \A e \in {out[i] : i \in Elements("fig6", "plotly_chart")} :
          LET ag == e.cats[1]
              ct == e.cats[2]
              num == e.nums[1]
              den == e.nums[2]
              Of(i) == {k \in DOMAIN df.rows : /\ df.rows[k]["AgeGroup"] = ag[i]
                                               /\ df.rows[k]["Card Type"] = ct[i]}
          IN  /\ Len(ag) = Len(ct) /\ Len(ag) = Len(num) /\ Len(ag) = Len(den)
              /\ \A k \in DOMAIN df.rows : \E i \in DOMAIN ag : k \in Of(i)
              /\ \A i \in DOMAIN ag : Of(i) # {}
              /\ \A i, j \in DOMAIN ag : (ag[i] = ag[j] /\ ct[i] = ct[j]) => i = j
              /\ \A i \in DOMAIN ag :
                    /\ den[i] > 0
                    /\ num[i] * Cardinality(Of(i)) = den[i] * SalarySum(df, Of(i))

C6_Witness ==
    /\ \E i \in Elements("fig6", "plotly_chart") :
          /\ Len(out[i].cats[1]) = 1
          /\ out[i].nums[1][1] = 3500
          /\ out[i].nums[2][1] = 2

-----------------------------------------------------------------------------
(* C7 *)

\* The page of a table with Tenure, as claim C7 expects it for the same table
\* without the column: the tenure section gone, the preview without the column.
WithoutTenure(page, t) ==
    LET kept == SelectSeq(page, LAMBDA e : e.sec # "fig8")
    IN  [i \in DOMAIN kept |->
            IF kept[i].kind = "dataframe"
            THEN Frame("preview", DfHead(Drop(t, {"Tenure"}), 5))
            ELSE kept[i]]

\* The tables that are t with a Tenure column added
WithTenure(t) ==
    { [cols |-> t.cols \cup {"Tenure"},
       rows |-> [i \in DOMAIN t.rows |-> [t.rows[i] EXCEPT !["Tenure"] = ten[i]]]] :
         ten \in [DOMAIN t.rows -> Dom("Tenure")] }

\* C7: a finished run on a table with Exited and without Tenure has emitted no
\* tenure section, and what it has emitted is, element for element, what the
\* script emits on the same table with a Tenure column, less the tenure section
\* and the column in the preview; it ends the same way. (Every finished run has
\* emitted what the script emits on its table.)
C7_TenureFrame ==
    Finished =>
        /\ BodyOut = Page(country, df).out
        /\ exc = Page(country, df).exc
        /\ ("Exited" \in df.cols /\ "Tenure" \notin df.cols) =>
              /\ ~Has("fig8")
              /\ \A t \in WithTenure(df) :
                    /\ BodyOut = WithoutTenure(Page(country, t).out, t)
                    /\ exc = Page(country, t).exc

C7_Witness ==
    /\ Finished
    /\ exc = "none"
    /\ df.cols = AllColumns \ ({"Tenure"} \cup cols_to_drop)
    /\ Len(df.rows) = 1
    /\ ~Has("fig8")
    /\ Has("fig9")

-----------------------------------------------------------------------------
(* C8 *)

\* C8: with Exited present, a finished run has raised nothing when Card Type or
\* AgeGroup is missing and shows 'N/A' in the field of the missing column; the
\* field of a column that is there shows one of its most frequent values among
\* the rows with Exited = 1.
C8_Placeholders ==
    (Finished /\ "Exited" \in df.cols) =>
        /\ ("Card Type" \notin df.cols \/ "AgeGroup" \notin df.cols) =>
              exc = "none" /\ Panels # {}
        /\ \A i \in Panels :
              /\ IF "Card Type" \in df.cols
                 THEN MostFrequentChurned(df, "Card Type", out[i].text[6])
                 ELSE out[i].text[6] = "N/A"
              /\ IF "AgeGroup" \in df.cols
                 THEN MostFrequentChurned(df, "AgeGroup", out[i].text[7])
                 ELSE out[i].text[7] = "N/A"

-----------------------------------------------------------------------------
(* C9 *)

\* C9: a run creates one country dropdown and no second input widget: the page
\* never holds more than one selectbox, and it holds one when the loader is
\* called with its value.
C9_OneDropdown ==
    /\ Cardinality({i \in DOMAIN out : out[i].kind = "selectbox"}) <= 1
    /\ Loaded => Cardinality({i \in DOMAIN out : out[i].kind = "selectbox"}) = 1

-----------------------------------------------------------------------------
(* C10 *)

RECURSIVE Compress(_)
Compress(s) ==
    IF Len(s) <= 1 THEN s
    ELSE LET c == Compress(SubSeq(s, 1, Len(s) - 1))
         IN  IF c[Len(c)] = s[Len(s)] THEN c ELSE Append(c, s[Len(s)])

SectionOrder == <<"preview", "metrics", "fig1", "fig2", "fig3", "fig4", "fig5", "fig6", "fig7",
                  "fig8", "fig9", "insights", "links", "faq">>

ExpectedSections(t) ==
    SelectSeq(SectionOrder,
              LAMBDA x : x \in DOMAIN ChartNeeds => ChartNeeds[x] \subseteq t.cols)

\* C10: with Exited present a run goes to the end of the script, whatever the
\* rows and the optional columns, and its sections stand in the one order
\* preview, metrics, charts 1 to 9 (the absent ones left out), insights, links,
\* FAQ, with three metrics, one pie chart, one insights panel, two link buttons
\* and four FAQ entries.
C10_RunsToEndInOrder ==
    (Finished /\ "Exited" \in df.cols) =>
        /\ exc = "none"
        /\ Compress([i \in DOMAIN BodyOut |-> BodyOut[i].sec]) = ExpectedSections(df)
        /\ Cardinality(Elements("metrics", "metric")) = 3
        /\ Cardinality(Elements("fig7", "plotly_chart")) = 1
        /\ Cardinality(Panels) = 1
        /\ Cardinality({i \in Elements("links", "markdown") : Len(out[i].text) = 2}) = 2
        /\ Cardinality(Elements("faq", "expander")) = 4

====
